---- MODULE Spec2Model ----
(***************************************************************************)
(* A model of dataklasses.py: generic method templates are generated and   *)
(* compiled once per field count, kept in an lru_cache, and specialised    *)
(* for a class by replacing the name tables (co_names, co_varnames) of the *)
(* compiled code object.  Compiled code refers to names by index only, so  *)
(* the specialised methods are run here by a small interpreter that reads  *)
(* the name tables the way the CPython (3.7 - 3.10) evaluation loop does.  *)
(***************************************************************************)
EXTENDS Integers, Sequences, FiniteSets, TLC

VARIABLES classes, cache, compiled, calls, last

vars == <<classes, cache, compiled, calls, last>>

(***************************************************************************)
(* Bounds of the model.                                                    *)
(***************************************************************************)
MaxClasses == 2
MaxCalls == 3
MaxSweep == 130

ClassNames == <<"Coordinates", "Point", "Record">>
Values == {2, 3}

(* functools.lru_cache() is applied with its default maxsize.              *)
LruMaxSize == 128

Families == <<"__init__", "__repr__", "__eq__">>
FamilySet == {Families[i] : i \in 1..Len(Families)}

(***************************************************************************)
(* Sequence helpers.                                                       *)
(***************************************************************************)
Range(s) == {s[i] : i \in 1..Len(s)}

(* The concatenation of the sequences of ss (by halves).                   *)
RECURSIVE Flatten(_)
Flatten(ss) ==
    IF Len(ss) = 0 THEN <<>>
    ELSE IF Len(ss) = 1 THEN ss[1]
    ELSE Flatten(SubSeq(ss, 1, Len(ss) \div 2))
           \o Flatten(SubSeq(ss, Len(ss) \div 2 + 1, Len(ss)))

(* s with only the first occurrence of each element kept (by halves).      *)
RECURSIVE Dedup(_)
Dedup(s) ==
    IF Len(s) <= 1 THEN s
    ELSE LET front == Dedup(SubSeq(s, 1, Len(s) \div 2))
             back == Dedup(SubSeq(s, Len(s) \div 2 + 1, Len(s)))
         IN front \o SelectSeq(back, LAMBDA x : x \notin Range(front))

IndexOf(s, x) == CHOOSE i \in 1..Len(s) : s[i] = x /\ \A j \in 1..(i - 1) : s[j] # x


(***************************************************************************)
(* Python values, as far as the generated methods touch them.  Every value *)
(* has the same shape: t is its type tag, n an integer payload (the int,   *)
(* the heap slot of an instance, the index of a class), s a string payload *)
(* and items the elements of a tuple.                                      *)
(***************************************************************************)
Val(t, n, s, items) == [t |-> t, n |-> n, s |-> s, items |-> items]
PyInt(i) == Val("int", i, "", <<>>)
PyStr(s) == Val("str", 0, s, <<>>)
PyBool(b) == Val("bool", IF b THEN 1 ELSE 0, "", <<>>)
PyTuple(items) == Val("tuple", 0, "", items)
PyObj(slot) == Val("obj", slot, "", <<>>)
PyType(c, name) == Val("type", c, name, <<>>)
PyBuiltin(name) == Val("builtin", 0, name, <<>>)
PyNone == Val("None", 0, "", <<>>)
PyNotImplemented == Val("NotImplemented", 0, "", <<>>)
PyGarbage == Val("garbage", 0, "", <<>>)

(* repr() of the values fields hold in the model (ints).                   *)
PyRepr(v) ==
    CASE v.t = "int" -> ToString(v.n)
      [] v.t = "str" -> "'" \o v.s \o "'"
      [] OTHER -> "<" \o v.t \o ">"

(* str() / format() of a value without conversion.                         *)
PyFormat(v) ==
    CASE v.t = "str" -> v.s
      [] OTHER -> PyRepr(v)

(***************************************************************************)
(* Source text of a generated method.  A def is its name, its parameter    *)
(* list and its body, a sequence of statements; a statement is written as  *)
(* the sequence of operations it stands for, each naming the variable,     *)
(* attribute or global it uses.                                            *)
(***************************************************************************)
Ins(op, name, arg, const) == [op |-> op, name |-> name, arg |-> arg, const |-> const]

LoadFast(name) == Ins("LOAD_FAST", name, 0, "")
LoadGlobal(name) == Ins("LOAD_GLOBAL", name, 0, "")
LoadAttr(name) == Ins("LOAD_ATTR", name, 0, "")
StoreAttr(name) == Ins("STORE_ATTR", name, 0, "")
LoadStr(s) == Ins("LOAD_CONST", "", 1, s)
LoadNone == Ins("LOAD_CONST", "", 0, "")
ReturnValue == Ins("RETURN_VALUE", "", 0, "")

(* A tuple display written "(a,b,)": n elements and a trailing comma.       *)
TupleDisplay(n) == Ins("BUILD_TUPLE", "", n, ",")

(* names = [f'_{n}' for n in range(numfields)]                              *)
Placeholders(numfields) == [i \in 1..numfields |-> "_" \o ToString(i - 1)]

(* def __init__(self, _0,_1): one statement " self._i = _i" per field.      *)
make__init__(fields) ==
    [def |-> "__init__",
     params |-> <<"self">> \o fields,
     body |-> [i \in 1..Len(fields) |->
                 <<LoadFast(fields[i]), LoadFast("self"), StoreAttr(fields[i])>>]]

(* Mutant: the fields are joined by "," instead of ", ".                    *)
ReprFieldPartComma(fields, i) ==
    (IF i > 1 THEN <<LoadStr(",")>> ELSE <<>>)
      \o <<LoadFast("self"), LoadAttr(fields[i]), Ins("FORMAT_VALUE", "", 2, "")>>

(* return f"{type(self).__name__}({self._0!r}, {self._1!r})"                *)
ReprFieldPart(fields, i) ==
    (IF i > 1 THEN <<LoadStr(", ")>> ELSE <<>>)
      \o <<LoadFast("self"), LoadAttr(fields[i]), Ins("FORMAT_VALUE", "", 2, "")>>

make__repr__(fields) ==
    [def |-> "__repr__",
     params |-> <<"self">>,
     body |-> << <<LoadGlobal("type"), LoadFast("self"), Ins("CALL_FUNCTION", "", 1, ""),
                   LoadAttr("__name__"), Ins("FORMAT_VALUE", "", 0, ""), LoadStr("(")>>
                 \o Flatten([i \in 1..Len(fields) |-> ReprFieldPart(fields, i)])
                 \o <<LoadStr(")"),
                      Ins("BUILD_STRING", "", 3 + Len(fields)
                            + (IF Len(fields) > 1 THEN Len(fields) - 1 ELSE 0), ""),
                      ReturnValue>> >>]

(* if self.__class__ is other.__class__:                                   *)
(*     return (self._0,self._1,) == (other._0,other._1,)                   *)
(* else:                                                                   *)
(*     return NotImplemented                                               *)
AttrsOf(var, fields) ==
    Flatten([i \in 1..Len(fields) |-> <<LoadFast(var), LoadAttr(fields[i])>>])

make__eq__(fields) ==
    LET thenPart == AttrsOf("self", fields) \o <<TupleDisplay(Len(fields))>>
                      \o AttrsOf("other", fields) \o <<TupleDisplay(Len(fields))>>
                      \o <<Ins("COMPARE_OP", "", 0, "=="), ReturnValue>>
    IN [def |-> "__eq__",
        params |-> <<"self", "other">>,
        body |-> << <<LoadFast("self"), LoadAttr("__class__"),
                      LoadFast("other"), LoadAttr("__class__"),
                      Ins("IS_OP", "", 0, ""),
                      Ins("POP_JUMP_IF_FALSE", "", Len(thenPart), "")>>
                    \o thenPart
                    \o <<LoadGlobal("NotImplemented"), ReturnValue>> >>]

Generate(family, fields) ==
    CASE family = "__init__" -> make__init__(fields)
      [] family = "__repr__" -> make__repr__(fields)
      [] family = "__eq__" -> make__eq__(fields)

(***************************************************************************)
(* exec() of a def: the compiler rejects a def without a body and a tuple  *)
(* display that is a lone comma; otherwise it builds the code object: the  *)
(* name tables in order of first use, and the operations referring to      *)
(* them by index (0-based, as in the byte code).  The byte string co_code  *)
(* is immutable and a function of the source alone: a code object holds it *)
(* as Bytes(family, field count), and Disassemble gives its operations.    *)
(***************************************************************************)
UsesName(ins) == ins.op \in {"LOAD_GLOBAL", "LOAD_ATTR", "STORE_ATTR"}

SyntaxOk(src) ==
    /\ src.body # <<>>
    /\ \A k \in 1..Len(src.body) : \A j \in 1..Len(src.body[k]) :
          ~(src.body[k][j].op = "BUILD_TUPLE" /\ src.body[k][j].const = ","
              /\ src.body[k][j].arg = 0)

Resolve(ins, co_names, co_varnames, at) ==
    CASE UsesName(ins) -> Ins(ins.op, "", IndexOf(co_names, ins.name) - 1, "")
      [] ins.op = "LOAD_FAST" -> Ins(ins.op, "", IndexOf(co_varnames, ins.name) - 1, "")
      [] ins.op = "POP_JUMP_IF_FALSE" -> Ins(ins.op, "", at + ins.arg + 1, "")
      [] OTHER -> ins

Bytes(family, numfields) == [def |-> family, numfields |-> numfields]

Text(src) ==
    LET flat == Flatten(src.body)
    IN IF flat[Len(flat)].op = "RETURN_VALUE" THEN flat
       ELSE flat \o <<LoadNone, ReturnValue>>

NamesUsed(src) ==
    LET used == SelectSeq(Text(src), UsesName)
    IN Dedup([i \in 1..Len(used) |-> used[i].name])

Compile(src, numfields) ==
    [co_name |-> src.def,
     co_argcount |-> Len(src.params),
     co_names |-> NamesUsed(src),
     co_varnames |-> src.params,
     co_code |-> Bytes(src.def, numfields)]

Disassemble(co_code) ==
    LET src == Generate(co_code.def, Placeholders(co_code.numfields))
        text == Text(src)
        co_names == NamesUsed(src)
    IN [i \in 1..Len(text) |-> Resolve(text[i], co_names, src.params, i)]

(* A function object: the code it runs.                                    *)
FunctionType(code) == [code |-> code]

(***************************************************************************)
(* code_replace: a new code object, equal to code but for the given        *)
(* fields.                                                                 *)
(***************************************************************************)
code_replace(code, kwargs) ==
    [k \in DOMAIN code |-> IF k \in DOMAIN kwargs THEN kwargs[k] ELSE code[k]]

(* Mutant: only co_varnames is replaced, co_names keeps the placeholders.   *)
patch_args_only(func, fields, start) ==
    FunctionType(code_replace(func.code, [co_varnames |-> <<"self">> \o fields]))

patch_args_and_attributes(func, fields, start) ==
    FunctionType(code_replace(func.code,
        [co_names |-> SubSeq(func.code.co_names, 1, start) \o fields,
         co_varnames |-> <<"self">> \o fields]))

(* Mutant: the template's own code is handed out, nothing replaced.        *)
patch_nothing(func, fields, start) == FunctionType(func.code)

patch_attributes(func, fields, start) ==
    FunctionType(code_replace(func.code,
        [co_names |-> SubSeq(func.code.co_names, 1, start) \o fields]))

(***************************************************************************)
(* Running a code object.  A frame has the code, the fast locals (bound    *)
(* by position), an evaluation stack and the heap of instances it can      *)
(* reach; an instance is its class (an index into classes) and its         *)
(* attributes.  LOAD_GLOBAL, LOAD_ATTR and STORE_ATTR fetch their name     *)
(* from co_names by index without a bound check: a read past the end of    *)
(* the tuple is undefined, and ub is what the build makes of it.           *)
(***************************************************************************)
UBOutcomes == {"segfault", "NotImplemented", "NameError", "garbage"}

Outcome(status, value, heap) == [status |-> status, value |-> value, heap |-> heap]

Pop(stack, n) == SubSeq(stack, 1, Len(stack) - n)
Top(stack, k) == stack[Len(stack) - k]

RECURSIVE JoinStr(_)
JoinStr(strs) == IF strs = <<>> THEN "" ELSE Head(strs).s \o JoinStr(Tail(strs))

TypeOf(v, heap, names) ==
    CASE v.t = "obj" -> PyType(heap[v.n].cls, names[heap[v.n].cls])
      [] OTHER -> PyType(0, v.t)

GetAttr(obj, name, heap, names) ==
    CASE name = "__class__" -> Outcome("ok", TypeOf(obj, heap, names), heap)
      [] name = "__name__" /\ obj.t = "type" -> Outcome("ok", PyStr(obj.s), heap)
      [] obj.t = "obj" /\ name \in DOMAIN heap[obj.n].attrs ->
            Outcome("ok", heap[obj.n].attrs[name], heap)
      [] OTHER -> Outcome("raise", PyStr("AttributeError"), heap)

SetAttr(obj, name, value, heap) ==
    [heap EXCEPT ![obj.n].attrs =
        [a \in DOMAIN @ \cup {name} |-> IF a = name THEN value ELSE @[a]]]

LookupGlobal(name, heap) ==
    CASE name = "type" -> Outcome("ok", PyBuiltin("type"), heap)
      [] name = "NotImplemented" -> Outcome("ok", PyNotImplemented, heap)
      [] OTHER -> Outcome("raise", PyStr("NameError"), heap)

(* The name read from past the end of co_names.                            *)
UndefinedName(ub, heap) ==
    CASE ub = "segfault" -> Outcome("segfault", PyNone, heap)
      [] ub = "NotImplemented" -> Outcome("ok", PyNotImplemented, heap)
      [] ub = "NameError" -> Outcome("raise", PyStr("NameError"), heap)
      [] OTHER -> Outcome("ok", PyGarbage, heap)

RECURSIVE Eval(_, _, _, _, _, _, _, _)
Eval(code, text, pc, stack, locals, heap, names, ub) ==
    LET ins == text[pc]
        inRange == ins.arg < Len(code.co_names)
        name == code.co_names[ins.arg + 1]
        Go(stk, hp) == Eval(code, text, pc + 1, stk, locals, hp, names, ub)
        Via(r, stk) == IF r.status = "ok" THEN Go(Append(stk, r.value), r.heap) ELSE r
    IN CASE ins.op = "LOAD_FAST" -> Go(Append(stack, locals[ins.arg + 1]), heap)
         [] ins.op = "LOAD_CONST" ->
               Go(Append(stack, IF ins.arg = 0 THEN PyNone ELSE PyStr(ins.const)), heap)
         [] ins.op = "LOAD_GLOBAL" ->
               Via(IF inRange THEN LookupGlobal(name, heap) ELSE UndefinedName(ub, heap),
                   stack)
         [] ins.op = "LOAD_ATTR" ->
               Via(IF inRange THEN GetAttr(Top(stack, 0), name, heap, names)
                   ELSE UndefinedName(ub, heap), Pop(stack, 1))
         [] ins.op = "STORE_ATTR" ->
               IF inRange
               THEN Go(Pop(stack, 2), SetAttr(Top(stack, 0), name, Top(stack, 1), heap))
               ELSE LET r == UndefinedName(ub, heap)
                    IN IF r.status = "ok" THEN Outcome("raise", PyStr("TypeError"), heap)
                       ELSE r
         [] ins.op = "CALL_FUNCTION" ->
               IF Top(stack, 1) = PyBuiltin("type")
               THEN Go(Append(Pop(stack, 2), TypeOf(Top(stack, 0), heap, names)), heap)
               ELSE Outcome("raise", PyStr("TypeError"), heap)
         [] ins.op = "FORMAT_VALUE" ->
               Go(Append(Pop(stack, 1),
                         PyStr(IF ins.arg = 2 THEN PyRepr(Top(stack, 0))
                               ELSE PyFormat(Top(stack, 0)))), heap)
         [] ins.op = "BUILD_STRING" ->
               Go(Append(Pop(stack, ins.arg),
                         PyStr(JoinStr(SubSeq(stack, Len(stack) - ins.arg + 1, Len(stack))))),
                  heap)
         [] ins.op = "BUILD_TUPLE" ->
               Go(Append(Pop(stack, ins.arg),
                         PyTuple(SubSeq(stack, Len(stack) - ins.arg + 1, Len(stack)))),
                  heap)
         [] ins.op = "IS_OP" ->
               Go(Append(Pop(stack, 2), PyBool(Top(stack, 1) = Top(stack, 0))), heap)
         [] ins.op = "COMPARE_OP" ->
               Go(Append(Pop(stack, 2), PyBool(Top(stack, 1) = Top(stack, 0))), heap)
         [] ins.op = "POP_JUMP_IF_FALSE" ->
               IF Top(stack, 0) = PyBool(FALSE)
               THEN Eval(code, text, ins.arg, Pop(stack, 1), locals, heap, names, ub)
               ELSE Go(Pop(stack, 1), heap)
         [] ins.op = "RETURN_VALUE" -> Outcome("return", Top(stack, 0), heap)

(* Calling a function with positional arguments: as many as co_argcount,   *)
(* bound to the fast locals in order.                                      *)
Call(func, args, heap, names, ub) ==
    IF Len(args) # func.code.co_argcount
    THEN Outcome("raise", PyStr("TypeError"), heap)
    ELSE Eval(func.code, Disassemble(func.code.co_code), 1, <<>>, args, heap, names, ub)

(***************************************************************************)
(* Classes.  A class has a name, at most one base class (0: object), the   *)
(* annotations of its own body in order, its own __dict__ (the methods     *)
(* defined in its body or attached to it) and __match_args__.  A function  *)
(* object in a __dict__ or in the cache carries its identity (id), whether *)
(* the class author wrote it ("user"), it is a cached generic template     *)
(* ("template") or a specialised method ("synth"), and for a specialised   *)
(* method the identity of the template it was made from.                   *)
(***************************************************************************)
OwnAnnotations == {<<>>, <<"x">>, <<"y">>, <<"x", "y">>, <<"y", "x">>}

NoDict == [f \in {} |-> 0]
NoAttrs == [a \in {} |-> PyNone]
NoCode == [co_name |-> "", co_argcount |-> 0, co_names |-> <<>>,
           co_varnames |-> <<>>, co_code |-> Bytes("", 0)]

(* The identity of a function object: the place that created it.  A user   *)
(* function is the def of family fam in the body of class n; a template is *)
(* the k-th function exec() made for family fam and n fields; a            *)
(* specialised method is the one the k-th dataklass call made for family   *)
(* fam of class n.                                                         *)
Id(kind, fam, n, k) == [kind |-> kind, fam |-> fam, n |-> n, k |-> k]
NoId == Id("none", "", 0, 0)

Function(id, kind, tmpl, code) == [id |-> id, kind |-> kind, tmpl |-> tmpl, code |-> code]

(* cls.__mro__ of a class with single inheritance: the class, then its     *)
(* bases from the nearest on (object, which has no annotations, left out). *)
RECURSIVE mro(_, _)
mro(cs, c) == IF c = 0 THEN <<>> ELSE <<c>> \o mro(cs, cs[c].base)

(* Mutant: {**b, **a}, the operands swapped.                               *)
DictMergeSwapped(a, b) == b \o SelectSeq(a, LAMBDA k : k \notin Range(b))

(* {**a, **b} on the keys of two dicts: a's keys in a's order, then the    *)
(* keys only b has, in b's order.                                          *)
DictMerge(a, b) == a \o SelectSeq(b, LAMBDA k : k \notin Range(a))

(* reduce(lambda x, y: {**getattr(y, '__annotations__', {}), **x},         *)
(*        cls.__mro__, {})                                                 *)
RECURSIVE reduce(_, _, _)
reduce(cs, seq, x) ==
    IF seq = <<>> THEN x
    ELSE reduce(cs, Tail(seq), DictMerge(cs[Head(seq)].annotations, x))

all_hints(cs, c) == reduce(cs, mro(cs, c), <<>>)

(***************************************************************************)
(* codegen: make_func_code under functools.lru_cache().  The cache of one  *)
(* family is its entries from the least to the most recently used.  A hit  *)
(* returns the cached function and makes its entry the most recent; a miss *)
(* generates and exec()s the source, and stores the function unless exec   *)
(* raised, dropping the least recently used entry of a full cache.         *)
(***************************************************************************)
CacheIndex(entries, key) == CHOOSE i \in 1..Len(entries) : entries[i].key = key

Without(entries, i) == SubSeq(entries, 1, i - 1) \o SubSeq(entries, i + 1, Len(entries))

make_func_code(entries, family, numfields, id) ==
    IF \E i \in 1..Len(entries) : entries[i].key = numfields
    THEN LET i == CacheIndex(entries, numfields)
         IN [status |-> "hit", func |-> entries[i].func,
             entries |-> Append(Without(entries, i), entries[i])]
    ELSE LET src == Generate(family, Placeholders(numfields))
         IN IF ~SyntaxOk(src)
            THEN [status |-> "raise", func |-> Function(NoId, "none", NoId, NoCode),
                  entries |-> entries]
            ELSE LET func == Function(id, "template", id, Compile(src, numfields))
                     room == IF Len(entries) >= LruMaxSize THEN Tail(entries) ELSE entries
                 IN [status |-> "miss", func |-> func,
                     entries |-> Append(room, [key |-> numfields, func |-> func])]

Count(counts, n) == IF n \in DOMAIN counts THEN counts[n] ELSE 0

Bump(counts, n) ==
    [k \in DOMAIN counts \cup {n} |-> IF k = n THEN Count(counts, n) + 1 ELSE counts[k]]

(***************************************************************************)
(* dataklass(cls).  One line of it per family: skipped when the class's    *)
(* own __dict__ has the method, else the template is fetched, specialised  *)
(* and attached.  An exception ends the call where it is raised: what was  *)
(* attached before stays attached.                                         *)
(***************************************************************************)
Specialise(family, template, fields) ==
    CASE family = "__init__" -> patch_args_and_attributes(template, fields, 0)
      [] family = "__repr__" -> patch_attributes(template, fields, 2)
      [] family = "__eq__" -> patch_attributes(template, fields, 1)

(* A variant that looks only for methods written in the class body.        *)
DefinedInBody(dict, family) == family \in DOMAIN dict /\ dict[family].kind = "user"

(* name in cls.__dict__                                                     *)
InDict(dict, family) == family \in DOMAIN dict

Attach(st, family, fields) ==
    IF st.raised \/ InDict(st.dict, family) THEN st
    ELSE LET r == make_func_code(st.cache[family], family, Len(fields),
                                 Id("template", family, Len(fields),
                                    Count(st.compiled[family], Len(fields)) + 1))
             compiledNow == IF r.status = "hit" THEN st.compiled
                            ELSE [st.compiled EXCEPT ![family] = Bump(@, Len(fields))]
         IN IF r.status = "raise"
            THEN [st EXCEPT !.raised = TRUE, !.compiled = compiledNow]
            ELSE LET method == Function(Id("synth", family, st.cls, st.call), "synth",
                                        r.func.id,
                                        Specialise(family, r.func, fields).code)
                 IN [st EXCEPT
                       !.dict = [f \in DOMAIN @ \cup {family} |->
                                   IF f = family THEN method ELSE @[f]],
                       !.cache = [@ EXCEPT ![family] = r.entries],
                       !.compiled = compiledNow]

(* The lines of dataklass for the families, in the order of the source.    *)
RECURSIVE AttachEach(_, _, _)
AttachEach(st, families, fields) ==
    IF families = <<>> THEN st
    ELSE AttachEach(Attach(st, Head(families), fields), Tail(families), fields)

dataklass(cs, c, theCache, theCompiled, callNo) ==
    LET fields == all_hints(cs, c)
        st0 == [dict |-> cs[c].dict, cache |-> theCache, compiled |-> theCompiled,
                cls |-> c, call |-> callNo, raised |-> FALSE,
                match_args |-> cs[c].match_args]
        st3 == AttachEach(st0, Families, fields)
    IN IF st3.raised THEN st3
       ELSE [st3 EXCEPT !.match_args = [set |-> TRUE, value |-> fields]]

(***************************************************************************)
(* Using a class: attribute lookup along the MRO, instance creation, and   *)
(* the == operator (PyObject_RichCompare).                                 *)
(***************************************************************************)
ObjectMethod == Function(NoId, "object", NoId, NoCode)

RECURSIVE LookupIn(_, _, _)
LookupIn(cs, seq, family) ==
    IF seq = <<>> THEN ObjectMethod
    ELSE IF family \in DOMAIN cs[Head(seq)].dict THEN cs[Head(seq)].dict[family]
    ELSE LookupIn(cs, Tail(seq), family)

LookupMethod(cs, c, family) == LookupIn(cs, mro(cs, c), family)

ClassNamesOf(cs) == [i \in 1..Len(cs) |-> cs[i].name]

ArgVals(args) == [i \in 1..Len(args) |-> PyInt(args[i])]

(* cls(args): a new instance in the next heap slot, then __init__.        *)
Instantiate(cs, c, args, heap, ub) ==
    LET slot == Len(heap) + 1
        heap1 == Append(heap, [cls |-> c, attrs |-> NoAttrs])
        init == LookupMethod(cs, c, "__init__")
    IN IF init.kind = "synth"
       THEN Call(init, <<PyObj(slot)>> \o ArgVals(args), heap1, ClassNamesOf(cs), ub)
       ELSE IF args = <<>> THEN Outcome("return", PyNone, heap1)
       ELSE Outcome("raise", PyStr("TypeError"), heap1)

(* type(x).__eq__(x, y)                                                    *)
CallEq(cs, x, y, heap, ub) ==
    LET f == IF x.t = "obj" THEN LookupMethod(cs, heap[x.n].cls, "__eq__") ELSE ObjectMethod
    IN IF f.kind = "synth" THEN Call(f, <<x, y>>, heap, ClassNamesOf(cs), ub)
       ELSE IF x.t = "tuple" /\ y.t = "tuple"
       THEN Outcome("return", PyBool(x.items = y.items), heap)
       ELSE Outcome("return", PyNotImplemented, heap)

IsProperSubclass(cs, sub, sup) == sub # sup /\ sub # 0 /\ sup \in Range(mro(cs, sub))

ClassOf(v, heap) == IF v.t = "obj" THEN heap[v.n].cls ELSE 0

(* a == b: the reflected method first when type(b) is a proper subclass of *)
(* type(a); the first result that is not NotImplemented; a is b when both  *)
(* decline.  first is what the first method called returned.               *)
RichCompare(cs, a, b, heap, ub1, ub2) ==
    LET swapped == IsProperSubclass(cs, ClassOf(b, heap), ClassOf(a, heap))
        r1 == IF swapped THEN CallEq(cs, b, a, heap, ub1) ELSE CallEq(cs, a, b, heap, ub1)
        r2 == IF swapped THEN CallEq(cs, a, b, heap, ub2) ELSE CallEq(cs, b, a, heap, ub2)
        final == IF r1.status # "return" \/ r1.value # PyNotImplemented THEN r1
                 ELSE IF r2.status # "return" \/ r2.value # PyNotImplemented THEN r2
                 ELSE Outcome("return", PyBool(a = b), heap)
    IN [first |-> r1, final |-> final]

(***************************************************************************)
(* The state: the classes declared so far, the lru caches of the three     *)
(* generators, how often exec() ran for each family and field count, the   *)
(* next object identity, the number of dataklass calls made, and the       *)
(* operation performed last with its operands and its outcome.             *)
(***************************************************************************)
NoClass == [name |-> "", base |-> 0, annotations |-> <<>>, dict |-> NoDict,
            match_args |-> [set |-> FALSE, value |-> <<>>]]

NoInstance == [cls |-> 0, attrs |-> NoAttrs]

Last(op, cls, args, other, oargs, status, value) ==
    [op |-> op, cls |-> cls, args |-> args, other |-> other, oargs |-> oargs,
     status |-> status, value |-> value, first |-> Outcome("none", PyNone, <<>>),
     obj |-> NoInstance, before |-> NoClass]

Init ==
    /\ classes = <<>>
    /\ cache = [f \in FamilySet |-> <<>>]
    /\ compiled = [f \in FamilySet |-> NoDict]
    /\ calls = 0
    /\ last = Last("none", 0, <<>>, 0, <<>>, "none", PyNone)

(* The class object a class statement makes: the k-th class, with          *)
(* annotations ann and the methods of user written in its body.            *)
NewClass(k, base, ann, user) ==
    [name |-> ClassNames[k], base |-> base, annotations |-> ann,
     dict |-> [f \in user |-> Function(Id("user", f, k, 0), "user", NoId,
                                       [NoCode EXCEPT !.co_name = f])],
     match_args |-> [set |-> FALSE, value |-> <<>>]]

(* class Name(Base): ...                                                   *)
Declare(base, ann, user) ==
    /\ last.op = "none"
    /\ Len(classes) < MaxClasses
    /\ classes' = Append(classes, NewClass(Len(classes) + 1, base, ann, user))
    /\ last' = Last("class", Len(classes) + 1, <<>>, 0, <<>>, "return", PyNone)
    /\ UNCHANGED <<cache, compiled, calls>>

(* dataklass(classes[c])                                                   *)
Dataklass(c) ==
    /\ last.op = "none"
    /\ calls < MaxCalls
    /\ LET st == dataklass(classes, c, cache, compiled, calls + 1)
       IN /\ classes' = [classes EXCEPT ![c].dict = st.dict,
                                        ![c].match_args = st.match_args]
          /\ cache' = st.cache
          /\ compiled' = st.compiled
          /\ last' = [Last("dataklass", c, <<>>, 0, <<>>,
                           IF st.raised THEN "raise" ELSE "return", PyNone)
                        EXCEPT !.before = classes[c]]
    /\ calls' = calls + 1

Arity(c) == Len(all_hints(classes, c))

CanInstantiate(c) == LookupMethod(classes, c, "__init__").kind = "synth"

(* @dataklass                                                              *)
(* class Name(Base): ...                                                   *)
(* the class statement, then dataklass applied to the new class.           *)
DecoratedClass(base, ann, user) ==
    /\ last.op = "none"
    /\ Len(classes) < MaxClasses
    /\ calls < MaxCalls
    /\ LET c == Len(classes) + 1
           declared == Append(classes, NewClass(c, base, ann, user))
           st == dataklass(declared, c, cache, compiled, calls + 1)
       IN /\ classes' = [declared EXCEPT ![c].dict = st.dict,
                                         ![c].match_args = st.match_args]
          /\ cache' = st.cache
          /\ compiled' = st.compiled
          /\ last' = [Last("dataklass", c, <<>>, 0, <<>>,
                           IF st.raised THEN "raise" ELSE "return", PyNone)
                        EXCEPT !.before = declared[c]]
    /\ calls' = calls + 1

(* obj = classes[c](args)                                                 *)
Construct(c, args) ==
    /\ last.op = "none"
    /\ CanInstantiate(c)
    /\ LET r == Instantiate(classes, c, args, <<>>, "segfault")
       IN last' = [Last("construct", c, args, 0, <<>>, r.status, r.value)
                     EXCEPT !.obj = r.heap[1]]
    /\ UNCHANGED <<classes, cache, compiled, calls>>

(* repr(classes[c](args))                                                 *)
Repr(c, args) ==
    /\ last.op = "none"
    /\ CanInstantiate(c)
    /\ LookupMethod(classes, c, "__repr__").kind = "synth"
    /\ LET made == Instantiate(classes, c, args, <<>>, "segfault")
       IN /\ made.status = "return"
          /\ LET r == Call(LookupMethod(classes, c, "__repr__"), <<PyObj(1)>>,
                           made.heap, ClassNamesOf(classes), "segfault")
             IN last' = [Last("repr", c, args, 0, <<>>, r.status, r.value)
                           EXCEPT !.obj = made.heap[1]]
    /\ UNCHANGED <<classes, cache, compiled, calls>>

(* classes[c](args) == classes[d](oargs), or == tuple(oargs) when d = 0  *)
Eq(c, args, d, oargs, ub1, ub2) ==
    /\ last.op = "none"
    /\ CanInstantiate(c)
    /\ LookupMethod(classes, c, "__eq__").kind = "synth"
    /\ d # 0 => /\ CanInstantiate(d)
                /\ LookupMethod(classes, d, "__eq__").kind = "synth"
    /\ LET madeA == Instantiate(classes, c, args, <<>>, "segfault")
           madeB == IF d = 0 THEN madeA
                    ELSE Instantiate(classes, d, oargs, madeA.heap, "segfault")
           b == IF d = 0 THEN PyTuple(ArgVals(oargs)) ELSE PyObj(2)
       IN /\ madeA.status = "return"
          /\ madeB.status = "return"
          /\ LET r == RichCompare(classes, PyObj(1), b, madeB.heap, ub1, ub2)
             IN last' = [Last("eq", c, args, d, oargs, r.final.status, r.final.value)
                           EXCEPT !.first = [r.first EXCEPT !.heap = <<>>]]
    /\ UNCHANGED <<classes, cache, compiled, calls>>

(* The outcome of the last operation is read and dropped before the next   *)
(* operation starts.                                                       *)
Forget ==
    /\ last.op # "none"
    /\ last' = Last("none", 0, <<>>, 0, <<>>, "none", PyNone)
    /\ UNCHANGED <<classes, cache, compiled, calls>>

ArgsFor(n) == [1..n -> Values]


(* Declaring and decorating classes whose bodies define any of the three   *)
(* methods themselves.                                                     *)
Next ==
    \/ \E base \in 0..Len(classes), ann \in OwnAnnotations, user \in SUBSET FamilySet :
          Declare(base, ann, user)
    \/ \E c \in 1..Len(classes) : Dataklass(c)
    \/ Forget

Spec == Init /\ [][Next]_vars

(* Using classes that are decorated where they are declared and leave the  *)
(* three methods to dataklass.                                             *)
NextUse ==
    \/ \E base \in 0..Len(classes), ann \in OwnAnnotations : DecoratedClass(base, ann, {})
    \/ \E c \in 1..Len(classes) : \E args \in ArgsFor(Arity(c)) : Construct(c, args)
    \/ \E c \in 1..Len(classes) : \E args \in ArgsFor(Arity(c)) : Repr(c, args)
    \/ \E c \in 1..Len(classes), d \in 0..Len(classes) :
          \E args \in ArgsFor(Arity(c)),
             oargs \in ArgsFor(IF d = 0 THEN Arity(c) ELSE Arity(d)),
             ub1 \in (IF c = d THEN {"segfault"} ELSE UBOutcomes) :
                \E ub2 \in (IF ub1 = "NotImplemented" THEN UBOutcomes ELSE {"segfault"}) :
                   Eq(c, args, d, oargs, ub1, ub2)
    \/ Forget

SpecUse == Init /\ [][NextUse]_vars

(***************************************************************************)
(* A sweep over field counts: a class of 1 field, of 2 fields, ... is      *)
(* declared, decorated and dropped, each with one more field than the      *)
(* last; at any point of the sweep a class of 1 field may be decorated     *)
(* once more, which ends the sweep.                                        *)
(***************************************************************************)
SweepFields(n) == [i \in 1..n |-> "f" \o ToString(i)]

Requested == Cardinality(DOMAIN compiled["__init__"])

SweepClass(n) ==
    /\ calls = Requested
    /\ n <= MaxSweep
    /\ LET declared == <<NewClass(1, 0, SweepFields(n), {})>>
           st == dataklass(declared, 1, cache, compiled, calls + 1)
       IN /\ classes' = [declared EXCEPT ![1].dict = st.dict,
                                         ![1].match_args = st.match_args]
          /\ cache' = st.cache
          /\ compiled' = st.compiled
          /\ last' = [Last("dataklass", 1, <<>>, 0, <<>>,
                           IF st.raised THEN "raise" ELSE "return", PyNone)
                        EXCEPT !.before = declared[1]]
    /\ calls' = calls + 1

SweepNext ==
    \/ SweepClass(Requested + 1)
    \/ Requested >= 1 /\ SweepClass(1)

SpecSweep == Init /\ [][SweepNext]_vars

(***************************************************************************)
(* Properties.                                                             *)
(***************************************************************************)
CachedKeys(family) == {cache[family][i].key : i \in 1..Len(cache[family])}

(* The specialised methods attached to the classes, with their class.      *)
SynthMethods ==
    {<<c, f>> \in (1..Len(classes)) \X FamilySet :
        f \in DOMAIN classes[c].dict /\ classes[c].dict[f].kind = "synth"}

(* C4: exec() runs at most once for a family and a field count, a field    *)
(* count that was compiled stays in the cache (nothing is evicted), and    *)
(* every specialised method was made from the template compiled first.     *)
C4_CompiledOnceNeverEvicted ==
    /\ \A f \in FamilySet : \A n \in DOMAIN compiled[f] :
          /\ compiled[f][n] <= 1
          /\ SyntaxOk(Generate(f, Placeholders(n))) => n \in CachedKeys(f)
    /\ \A m \in SynthMethods :
          classes[m[1]].dict[m[2]].tmpl
            = Id("template", m[2], Len(classes[m[1]].match_args.value), 1)

(* C1: a constructor call with one value per field returns and leaves      *)
(* exactly the attributes named by the fields, the i-th field holding the  *)
(* i-th argument.                                                          *)
C1_ConstructorStoresByPosition ==
    (last.op = "construct" /\ "__init__" \in DOMAIN classes[last.cls].dict) =>
       LET fields == classes[last.cls].match_args.value
       IN /\ last.status = "return"
          /\ Len(fields) = Len(last.args)
          /\ DOMAIN last.obj.attrs = Range(fields)
          /\ \A i \in 1..Len(fields) : last.obj.attrs[fields[i]] = PyInt(last.args[i])

C1_Witness ==
    /\ last.op = "construct"
    /\ last.status = "return"
    /\ classes[last.cls].match_args.value = <<"x", "y">>
    /\ last.args = <<2, 3>>
    /\ last.obj.attrs["x"] = PyInt(2)
    /\ last.obj.attrs["y"] = PyInt(3)

RECURSIVE JoinSep(_, _)
JoinSep(strs, sep) ==
    IF strs = <<>> THEN ""
    ELSE IF Len(strs) = 1 THEN strs[1]
    ELSE strs[1] \o sep \o JoinSep(Tail(strs), sep)

NamedRepr(name, fields, args) ==
    name \o "(" \o JoinSep([i \in 1..Len(fields) |-> fields[i] \o "=" \o ToString(args[i])],
                          ", ") \o ")"

PositionalRepr(name, args) ==
    name \o "(" \o JoinSep([i \in 1..Len(args) |-> ToString(args[i])], ", ") \o ")"

(* C2 as stated: the representation is the type's name and, in             *)
(* parentheses, name=repr(value) for each field in order, joined by ", ".  *)
C2_ReprNamesFields ==
    last.op = "repr" =>
       /\ last.status = "return"
       /\ last.value = PyStr(NamedRepr(classes[last.cls].name,
                                       classes[last.cls].match_args.value, last.args))

(* C2 amended: the representation is the type's name and, in parentheses,  *)
(* repr(value) for each field in order, joined by ", "; no field names.    *)
C2_ReprPositional ==
    last.op = "repr" =>
       /\ last.status = "return"
       /\ Len(classes[last.cls].match_args.value) = Len(last.args)
       /\ last.value = PyStr(PositionalRepr(classes[last.cls].name, last.args))

C2_Witness ==
    /\ last.op = "repr"
    /\ classes[last.cls].name = "Coordinates"
    /\ classes[last.cls].match_args.value = <<"x", "y">>
    /\ last.args = <<2, 3>>
    /\ last.value = PyStr("Coordinates(2, 3)")

(* C3: a == b is true for the same exact type and equal field values,      *)
(* false for the same exact type and different values; for different exact *)
(* types the method called first returns NotImplemented and the comparison *)
(* is false.                                                               *)
C3_EqualityByExactType ==
    last.op = "eq" =>
       IF last.other = last.cls
       THEN last.status = "return" /\ last.value = PyBool(last.args = last.oargs)
       ELSE /\ last.first.status = "return"
            /\ last.first.value = PyNotImplemented
            /\ last.status = "return"
            /\ last.value = PyBool(FALSE)

(* C5: after dataklass(cls), a method defined in the body of cls is the    *)
(* same object as before, and every other family has a synthesized method  *)
(* in the __dict__ of cls, whatever the base classes define.               *)
C5_AttachedIffNotDefined ==
    last.op = "dataklass" =>
       \A f \in FamilySet :
          /\ f \in DOMAIN classes[last.cls].dict
          /\ IF f \in DOMAIN last.before.dict
             THEN classes[last.cls].dict[f] = last.before.dict[f]
             ELSE classes[last.cls].dict[f].kind = "synth"

(* C6: dataklass applied to a class it has decorated before returns and    *)
(* changes nothing: every method of the class is the object it was, and    *)
(* __match_args__ is the same tuple.                                       *)
C6_SecondDecorationChangesNothing ==
    (last.op = "dataklass" /\ last.before.match_args.set) =>
       /\ last.status = "return"
       /\ classes[last.cls] = last.before

C6_Witness ==
    /\ last.op = "dataklass"
    /\ last.before.match_args.set
    /\ \E f \in DOMAIN last.before.dict : last.before.dict[f].kind = "synth"
    /\ Len(last.before.match_args.value) >= 1

(* C7: decorating a class without fields succeeds.                         *)
C7_ZeroFieldsDecorates ==
    (last.op = "dataklass" /\ all_hints(classes, last.cls) = <<>>) =>
       last.status = "return"

(* The annotations of the classes of the MRO from the most base class to   *)
(* the class itself, one after the other.                                  *)
Reverse(s) == [i \in 1..Len(s) |-> s[Len(s) + 1 - i]]

BaseToDerived(cs, c) ==
    LET chain == Reverse(mro(cs, c))
    IN Flatten([i \in 1..Len(chain) |-> cs[chain[i]].annotations])

(* C8: after dataklass(cls) returned, __match_args__ holds every annotated *)
(* field of the class and its bases once, in the order of first appearance *)
(* from the most base class to the class; the parameters of a synthesized  *)
(* constructor follow self in the same order.                              *)
C8_FieldOrder ==
    (last.op = "dataklass" /\ last.status = "return") =>
       LET value == classes[last.cls].match_args.value
           declared == BaseToDerived(classes, last.cls)
       IN /\ classes[last.cls].match_args.set
          /\ Range(value) = Range(declared)
          /\ \A i, j \in 1..Len(value) :
                i < j => IndexOf(declared, value[i]) < IndexOf(declared, value[j])
          /\ classes[last.cls].dict["__init__"].kind = "synth" =>
                classes[last.cls].dict["__init__"].code.co_varnames = <<"self">> \o value

C8_Witness ==
    /\ last.op = "dataklass"
    /\ last.status = "return"
    /\ classes[last.cls].base # 0
    /\ classes[classes[last.cls].base].annotations = <<"x">>
    /\ classes[last.cls].annotations = <<"y", "x">>
    /\ classes[last.cls].match_args.value = <<"x", "y">>
    /\ classes[last.cls].dict["__init__"].kind = "synth"

(* C9: a dataklass call that raises leaves the class as it was.            *)
C9_NothingAttachedOnFailure ==
    (last.op = "dataklass" /\ last.status = "raise") =>
       classes[last.cls] = last.before

StartOf(family) ==
    CASE family = "__init__" -> 0
      [] family = "__repr__" -> 2
      [] family = "__eq__" -> 1

(* C10: every cached template refers to the placeholders of its field      *)
(* count; every specialised method is another object than its template,    *)
(* refers to the fields of its own class where the template has the        *)
(* placeholders, and to no placeholder, also after other classes of the    *)
(* same field count were decorated.                                        *)
C10_TemplatesKeepPlaceholders ==
    /\ \A f \in FamilySet : \A i \in 1..Len(cache[f]) :
          LET e == cache[f][i]
          IN /\ e.func.kind = "template"
             /\ SubSeq(e.func.code.co_names, StartOf(f) + 1, StartOf(f) + e.key)
                  = Placeholders(e.key)
             /\ f = "__init__" =>
                   e.func.code.co_varnames = <<"self">> \o Placeholders(e.key)
    /\ \A m \in SynthMethods :
          LET method == classes[m[1]].dict[m[2]]
              fields == all_hints(classes, m[1])
          IN /\ method.id # method.tmpl
             /\ SubSeq(method.code.co_names, StartOf(m[2]) + 1,
                       StartOf(m[2]) + Len(fields)) = fields
             /\ Range(method.code.co_names) \cap Range(Placeholders(Len(fields))) = {}
    /\ \A m1, m2 \in SynthMethods :
          m1 # m2 => classes[m1[1]].dict[m1[2]].id # classes[m2[1]].dict[m2[2]].id

C10_Witness ==
    /\ Len(classes) = 2
    /\ \A f \in FamilySet : <<1, f>> \in SynthMethods /\ <<2, f>> \in SynthMethods
    /\ classes[1].match_args.value = <<"x", "y">>
    /\ classes[2].match_args.value = <<"y", "x">>
    /\ \A f \in FamilySet : classes[1].dict[f].tmpl = classes[2].dict[f].tmpl
    /\ \A f \in FamilySet : Len(cache[f]) = 1

====
